---- MODULE Spec2Model ----
(***************************************************************************)
(* Permission-scoping core of the go401 data-access agent:                 *)
(*   tools/user_context.py   - UserContext, get_user_context,              *)
(*                             check_permission, get_user_data_scope,      *)
(*                             the process-wide current_user_context slot  *)
(*   tools/secure_bigquery.py - authenticate_user, secure_query_companies, *)
(*                             secure_query_participants,                  *)
(*                             secure_company_count, check_user_permissions*)
(* Strings are Python strings; Optional[x] is <<>> (None) or <<x>>.        *)
(***************************************************************************)
EXTENDS Integers, Sequences, FiniteSets, TLC

VARIABLES
    current_user_context,  \* user_context.py:141, the module-level slot
    pc,                    \* per session: where its current tool call stands
    op,                    \* per session: the tool it called last
    user_email,            \* per session: authenticate_user's argument
    found,                 \* per session: what get_user_context returned
    lookup,                \* per session: how the directory lookup ended
    success,               \* per session: set_user_context's return value
    user_context,          \* per session: the tool's local user_context
    company_id,            \* per session: secure_query_participants' argument
    sent,                  \* per session: the query the tool handed to client.query
    result,                \* per session: the text the tool returned
    remote,                \* per session: how the data query of its tool ended
    authed                 \* per session: the email its own last assignment stored

vars == <<current_user_context, pc, op, user_email, found, lookup, success,
          user_context, company_id, sent, result, remote, authed>>

----------------------------------------------------------------------------
(* Bounds of the model *)

MaxCompanies == 2   \* company ids C1..C<MaxCompanies> exist in the directory
MaxPlans == 1       \* plan ids P1..P<MaxPlans> exist in the directory
MaxRows == 1        \* a remote result holds 0..MaxRows rows / counts 0..MaxRows

(* Program constants *)

CompaniesLimit == 50       \* LIMIT of the company list query
ParticipantsLimit == 100   \* LIMIT of the participant list query

----------------------------------------------------------------------------
(* Values *)

None == <<>>
Some(x) == <<x>>

Sessions == {"s1", "s2"}
OneSession == {"s1"}

Company(i) == "C" \o ToString(i)
Plan(i) == "P" \o ToString(i)

\* the first k company ids / plan ids, as the list ARRAY_AGG returns
Companies(k) == [i \in 1..k |-> Company(i)]
Plans(k) == [i \in 1..k |-> Plan(i)]

Emails == {"a@x.com", "b@x.com"}
CallEmails == Emails \cup {"nonexistent@x.com"}

KnownRoles == {"super_admin", "company_admin", "plan_admin", "advisor", "participant"}
Roles == KnownRoles \cup {"auditor"}

PermissionLists == {<<>>, <<"view_companies">>, <<"view_participants">>,
                    <<"view_companies", "view_participants">>}

UserId(email) == IF email = "a@x.com" THEN "1" ELSE "2"

\* UserContext(user_id, email, role, company_ids, plan_ids, permissions, is_super_admin)
UserContext(email, role, cids, pids, perms, flag) ==
    [user_id |-> UserId(email), email |-> email, role |-> role,
     company_ids |-> cids, plan_ids |-> pids, permissions |-> perms,
     is_super_admin |-> flag]

\* every row the directory tables can hold for the modelled users
AllRows ==
    { UserContext(e, r, Companies(c), Plans(p), perms, f) :
        e \in {"a@x.com"}, r \in Roles, c \in 0..MaxCompanies, p \in 0..MaxPlans,
        perms \in PermissionLists, f \in BOOLEAN }

\* the rows of the directory the concurrent sessions log in against
DirectoryRows ==
    { UserContext("a@x.com", "company_admin", Companies(MaxCompanies), Plans(0),
                  <<"view_companies", "view_participants">>, FALSE),
      UserContext("b@x.com", "participant", Companies(0), Plans(0),
                  <<"view_participants">>, FALSE),
      UserContext("b@x.com", "plan_admin", Companies(1), Plans(MaxPlans),
                  <<"view_companies">>, TRUE) }

\* company_id arguments: None, the empty string, owned ids and one more
CompanyArgs == {None, Some("")} \cup { Some(Company(i)) : i \in 1..(MaxCompanies + 1) }

\* what bigquery.Client() raises without credentials or project, and what a
\* query raises
ClientError == "DefaultCredentialsError"
QueryErrors == {"Timeout", "BadRequest"}

\* the remote store's answer to a data query: how it ended, the rows it held,
\* the exception text
Answer(outcome, n, cause) == [outcome |-> outcome, n |-> n, cause |-> cause]
NoAnswer == Answer("", 0, "")

\* the company_id arguments of the concurrent sessions: none, or one company
SharedCompanyArgs == {None, Some(Company(1))}

----------------------------------------------------------------------------
(* user_context.py: the Permission Evaluator *)

\* required_permission in user_context.permissions (list membership)
InList(x, list) == \E i \in DOMAIN list : list[i] = x

\* sep.join(list)
RECURSIVE Join(_, _)
Join(list, sep) ==
    IF list = <<>> THEN ""
    ELSE IF Len(list) = 1 THEN list[1]
    ELSE list[1] \o sep \o Join(Tail(list), sep)

\* a check that grants everything
check_permission_any(uc, required_permission) == TRUE

\* a check that lets the role name stand for the flag
check_permission_by_role(uc, required_permission) ==
    IF uc.is_super_admin \/ uc.role = "super_admin" THEN TRUE
    ELSE InList(required_permission, uc.permissions)

check_permission(uc, required_permission) ==
    IF uc.is_super_admin THEN TRUE
    ELSE InList(required_permission, uc.permissions)

\* a default that leaves the query unrestricted
NoAccessScope_open == ""

\* line 137: the default, no access
NoAccessScope == "WHERE 1=0"

\* an IN list that keeps the first id only
in_list_first(field, ids) == "WHERE " \o field \o " IN ('" \o ids[1] \o "')"

\* lines 121-122, 127-128, 133-134: WHERE <field> IN ('id', 'id', ...)
in_list(field, ids) == "WHERE " \o field \o " IN ('" \o Join(ids, "', '") \o "')"

\* lines 113-137: the role-based scope
role_scope(uc) ==
    IF uc.role = "participant"
        THEN "WHERE participant_email = '" \o uc.email \o "'"
    ELSE IF uc.role = "company_admin" /\ uc.company_ids # <<>>
        THEN in_list("company_id", uc.company_ids)
    ELSE IF uc.role = "plan_admin" /\ uc.plan_ids # <<>>
        THEN in_list("plan_id", uc.plan_ids)
    ELSE IF uc.role = "advisor" /\ uc.company_ids # <<>>
        THEN in_list("company_id", uc.company_ids)
    ELSE NoAccessScope

\* a scope that drops the restriction by role name instead of by the flag
get_user_data_scope_by_role(uc) ==
    IF uc.role = "super_admin" THEN "" ELSE role_scope(uc)

get_user_data_scope(uc) ==
    IF uc.is_super_admin THEN "" ELSE role_scope(uc)

----------------------------------------------------------------------------
(* The texts the tools return, by kind *)

Text(kind) ==
    [kind |-> kind, role |-> "", user |-> None, scope |-> "", arg |-> "", n |-> 0,
     cause |-> ""]

NoResult == Text("")
\* absence reported as an empty result
NotAuthenticatedText_empty == Text("NoRows")
NotAuthenticatedText == Text("NotAuthenticated")
AccessDeniedText(role, what) == [Text("AccessDeniedRole") EXCEPT !.role = role, !.arg = what]
ParticipantsCannotText == Text("ParticipantsCannotView")
CompanyDeniedText(cid) == [Text("AccessDeniedCompany") EXCEPT !.arg = cid]
\* f"Error ... : {str(e)}"
ErrorText(what, cause) == [Text("Error") EXCEPT !.arg = what, !.cause = cause]
NoRowsText(what) == [Text("NoRows") EXCEPT !.arg = what]
ListingText(what, n) == [Text("Listing") EXCEPT !.arg = what, !.n = n]
TotalCountText(n) == [Text("TotalCount") EXCEPT !.n = n]
AccessCountText(n) == [Text("AccessCount") EXCEPT !.n = n]
AuthenticatedText(uc) == [Text("Authenticated") EXCEPT !.user = Some(uc), !.role = uc.role]
AuthFailedText(email) == [Text("AuthFailed") EXCEPT !.arg = email]
UserContextText(uc) ==
    [Text("UserContext") EXCEPT !.user = Some(uc), !.role = uc.role,
                                !.scope = IF get_user_data_scope(uc) = ""
                                          THEN "Full access (Super Admin)"
                                          ELSE get_user_data_scope(uc)]
\* the call ended without a return value (Python None) or with an uncaught exception
NoneReturned == Text("None")
Raised(what) == [Text("Raised") EXCEPT !.arg = what]

\* a query that drops its LIMIT clause
Query_unbounded(table, where, limit) ==
    [table |-> table, where |-> where, limit |-> 0, params |-> <<>>]

\* a query handed to client.query: table, WHERE clause, LIMIT (0: none), bound parameters
Query(table, where, limit) ==
    [table |-> table, where |-> where, limit |-> limit, params |-> <<>>]

----------------------------------------------------------------------------
(* State after import: nobody is authenticated, no tool is running *)

InitSessions(Ss) ==
    /\ pc = [s \in Ss |-> "idle"]
    /\ op = [s \in Ss |-> ""]
    /\ user_email = [s \in Ss |-> ""]
    /\ found = [s \in Ss |-> None]
    /\ lookup = [s \in Ss |-> ""]
    /\ success = [s \in Ss |-> FALSE]
    /\ user_context = [s \in Ss |-> None]
    /\ company_id = [s \in Ss |-> None]
    /\ sent = [s \in Ss |-> None]
    /\ result = [s \in Ss |-> NoResult]
    /\ remote = [s \in Ss |-> NoAnswer]
    /\ authed = [s \in Ss |-> None]

Init ==
    /\ current_user_context = None
    /\ InitSessions(Sessions)

\* a tool call starts: the locals of the previous call are gone
Enter(s, name) ==
    /\ pc[s] = "idle"
    /\ op' = [op EXCEPT ![s] = name]
    /\ found' = [found EXCEPT ![s] = None]
    /\ lookup' = [lookup EXCEPT ![s] = ""]
    /\ remote' = [remote EXCEPT ![s] = NoAnswer]
    /\ success' = [success EXCEPT ![s] = FALSE]

----------------------------------------------------------------------------
(* secure_bigquery.py authenticate_user, user_context.py set_user_context,  *)
(* get_user_context                                                         *)

\* authenticate_user(user_email) is called; set_user_context calls get_user_context
authenticate_user(s, email) ==
    /\ Enter(s, "authenticate_user")
    /\ pc' = [pc EXCEPT ![s] = "lookup"]
    /\ user_email' = [user_email EXCEPT ![s] = email]
    /\ user_context' = [user_context EXCEPT ![s] = None]
    /\ company_id' = [company_id EXCEPT ![s] = None]
    /\ sent' = [sent EXCEPT ![s] = None]
    /\ result' = [result EXCEPT ![s] = NoResult]
    /\ UNCHANGED <<current_user_context, authed>>

\* get_user_context: the directory query raises, returns no row, or returns a row
\* (one of first_rows while nobody is logged in, one of rows otherwise)
get_user_context(s, first_rows, rows) ==
    /\ pc[s] = "lookup"
    /\ \E outcome \in {"error", "empty", "row"} :
        /\ lookup' = [lookup EXCEPT ![s] = outcome]
        /\ IF outcome = "row"
           THEN \E row \in (IF current_user_context = None THEN first_rows ELSE rows) :
                   /\ row.email = user_email[s]
                   /\ found' = [found EXCEPT ![s] = Some(row)]
           ELSE found' = [found EXCEPT ![s] = None]
    /\ pc' = [pc EXCEPT ![s] = "assign"]
    /\ UNCHANGED <<current_user_context, op, user_email, success, user_context,
                   company_id, sent, result, remote, authed>>

\* an assignment that updates the stored identity in place and keeps its
\* company ids when the new row has none
set_user_context_assign_merge(s) ==
    /\ pc[s] = "assign"
    /\ current_user_context' =
          IF current_user_context # None /\ found[s] # None
                /\ found[s][1].company_ids = <<>>
          THEN Some([found[s][1] EXCEPT
                        !.company_ids = current_user_context[1].company_ids])
          ELSE found[s]
    /\ authed' = [authed EXCEPT ![s] =
                    IF found[s] = None THEN None ELSE Some(found[s][1].email)]
    /\ pc' = [pc EXCEPT ![s] = "test"]
    /\ UNCHANGED <<op, user_email, found, lookup, success, user_context,
                   company_id, sent, result, remote>>

\* set_user_context line 156: current_user_context = get_user_context(...)
set_user_context_assign(s) ==
    /\ pc[s] = "assign"
    /\ current_user_context' = found[s]
    /\ authed' = [authed EXCEPT ![s] =
                    IF found[s] = None THEN None ELSE Some(found[s][1].email)]
    /\ pc' = [pc EXCEPT ![s] = "test"]
    /\ UNCHANGED <<op, user_email, found, lookup, success, user_context,
                   company_id, sent, result, remote>>

\* set_user_context line 157: return current_user_context is not None
set_user_context_return(s) ==
    /\ pc[s] = "test"
    /\ success' = [success EXCEPT ![s] = (current_user_context # None)]
    /\ pc' = [pc EXCEPT ![s] = "reread"]
    /\ UNCHANGED <<current_user_context, op, user_email, found, lookup,
                   user_context, company_id, sent, result, remote, authed>>

\* authenticate_user lines 20-33: re-read the slot and render the message
authenticate_user_return(s) ==
    /\ pc[s] = "reread"
    /\ IF success[s]
       THEN /\ user_context' = [user_context EXCEPT ![s] = current_user_context]
            /\ result' = [result EXCEPT ![s] =
                            IF current_user_context = None
                            THEN Raised("AttributeError")
                            ELSE AuthenticatedText(current_user_context[1])]
       ELSE /\ result' = [result EXCEPT ![s] = AuthFailedText(user_email[s])]
            /\ UNCHANGED user_context
    /\ pc' = [pc EXCEPT ![s] = "idle"]
    /\ UNCHANGED <<current_user_context, op, user_email, found, lookup, success,
                   company_id, sent, remote, authed>>

----------------------------------------------------------------------------
(* secure_bigquery.py: the Secure Query Operations *)

\* a tool returns at once: nothing is sent
Return(s, text) ==
    /\ pc' = [pc EXCEPT ![s] = "idle"]
    /\ sent' = [sent EXCEPT ![s] = None]
    /\ result' = [result EXCEPT ![s] = text]

\* a tool hands its query to client.query and waits for the remote store
Send(s, query, wait) ==
    /\ pc' = [pc EXCEPT ![s] = wait]
    /\ sent' = [sent EXCEPT ![s] = Some(query)]
    /\ result' = [result EXCEPT ![s] = NoResult]

\* a read that narrows the stored identity to the company asked for
ReadSlot_narrowing(s, cid) ==
    /\ user_context' = [user_context EXCEPT ![s] = current_user_context]
    /\ company_id' = [company_id EXCEPT ![s] = cid]
    /\ current_user_context' =
          IF current_user_context # None /\ cid # None
          THEN Some([current_user_context[1] EXCEPT !.company_ids = <<cid[1]>>])
          ELSE current_user_context
    /\ UNCHANGED <<user_email, authed>>

\* get_current_user_context() into the tool's local user_context
ReadSlot(s, cid) ==
    /\ user_context' = [user_context EXCEPT ![s] = current_user_context]
    /\ company_id' = [company_id EXCEPT ![s] = cid]
    /\ UNCHANGED <<current_user_context, user_email, authed>>

\* secure_company_count up to client.query (lines 203-225)
secure_company_count(s, client_ok) ==
    /\ Enter(s, "secure_company_count")
    /\ ReadSlot(s, None)
    /\ IF current_user_context = None
       THEN Return(s, NotAuthenticatedText)
       ELSE LET uc == current_user_context[1] IN
            IF ~check_permission(uc, "view_companies")
            THEN Return(s, AccessDeniedText(uc.role, "view companies"))
            ELSE IF ~client_ok
            THEN Return(s, ErrorText("counting companies", ClientError))
            ELSE Send(s, Query("companies_company", get_user_data_scope(uc), 0),
                      "count_wait")

\* the answers to the count query: it raises, or its result iterates over no
\* row, or over a row holding the count
CountAnswers ==
    { Answer("error", 0, cause) : cause \in QueryErrors }
        \cup {Answer("norow", 0, "")}
        \cup { Answer("row", count, "") : count \in 0..MaxRows }

\* lines 228-237: the text for the count query's answer
CountResult(uc, answer) ==
    IF answer.outcome = "error" THEN ErrorText("counting companies", answer.cause)
    ELSE IF answer.outcome = "norow" THEN NoneReturned
    ELSE IF uc.is_super_admin THEN TotalCountText(answer.n)
    ELSE AccessCountText(answer.n)

\* secure_company_count lines 226-237: the count query ends
company_count_result(s) ==
    /\ pc[s] = "count_wait"
    /\ \E answer \in CountAnswers :
        /\ remote' = [remote EXCEPT ![s] = answer]
        /\ result' = [result EXCEPT ![s] = CountResult(user_context[s][1], answer)]
    /\ pc' = [pc EXCEPT ![s] = "idle"]
    /\ UNCHANGED <<current_user_context, op, user_email, found, lookup, success,
                   user_context, company_id, sent, authed>>

\* a role rule that gives way to the capability
participant_rule_unless_granted(uc) ==
    uc.role = "participant" /\ ~InList("view_companies", uc.permissions)

\* line 62: participants get no company-level data
participant_rule(uc) == uc.role = "participant"

\* secure_query_companies up to client.query (lines 46-79)
secure_query_companies(s, client_ok) ==
    /\ Enter(s, "secure_query_companies")
    /\ ReadSlot(s, None)
    /\ IF current_user_context = None
       THEN Return(s, NotAuthenticatedText)
       ELSE LET uc == current_user_context[1] IN
            IF ~check_permission(uc, "view_companies")
            THEN Return(s, AccessDeniedText(uc.role, "view companies"))
            ELSE IF ~client_ok
            THEN Return(s, ErrorText("querying companies", ClientError))
            ELSE IF participant_rule(uc)
            THEN Return(s, ParticipantsCannotText)
            ELSE Send(s, Query("companies_company", get_user_data_scope(uc),
                               CompaniesLimit), "companies_wait")

\* the answers to a list query: the query (or both readings of its result)
\* raises, or to_dataframe gives n rows, or to_dataframe raises and
\* list(results) gives n rows
ListAnswers ==
    { Answer("error", 0, cause) : cause \in QueryErrors }
        \cup { Answer(outcome, n, "") : outcome \in {"dataframe", "fallback"},
                                        n \in 0..MaxRows }

\* a list result that turns a failed query into an empty one
ListResult_swallow(what, answer) ==
    IF answer.outcome = "error" \/ answer.n = 0 THEN NoRowsText(what)
    ELSE IF answer.outcome = "dataframe" THEN ListingText(what, answer.n)
    ELSE [ListingText(what, answer.n) EXCEPT !.kind = "ListingFallback"]

\* a list result that renders no row as a listing of nothing
ListResult_empty_listing(what, answer) ==
    IF answer.outcome = "error" THEN ErrorText("querying " \o what, answer.cause)
    ELSE IF answer.outcome = "dataframe" THEN ListingText(what, answer.n)
    ELSE [ListingText(what, answer.n) EXCEPT !.kind = "ListingFallback"]

\* the rendering of a list result (lines 80-106, 161-190)
ListResult(what, answer) ==
    IF answer.outcome = "error" THEN ErrorText("querying " \o what, answer.cause)
    ELSE IF answer.n = 0 THEN NoRowsText(what)
    ELSE IF answer.outcome = "dataframe" THEN ListingText(what, answer.n)
    ELSE [ListingText(what, answer.n) EXCEPT !.kind = "ListingFallback"]

list_result(s, wait, what) ==
    /\ pc[s] = wait
    /\ \E answer \in ListAnswers :
        /\ remote' = [remote EXCEPT ![s] = answer]
        /\ result' = [result EXCEPT ![s] = ListResult(what, answer)]
    /\ pc' = [pc EXCEPT ![s] = "idle"]
    /\ UNCHANGED <<current_user_context, op, user_email, found, lookup, success,
                   user_context, company_id, sent, authed>>

companies_result(s) == list_result(s, "companies_wait", "companies")
participants_result(s) == list_result(s, "participants_wait", "participants")

\* line 137: if company_id (None and "" are falsy)
Truthy(cid) == cid # None /\ cid[1] # ""

\* a check that lets every requested company through
company_denied_never(uc, cid) == FALSE

\* line 138: the requested company is not one the caller may see
company_denied(uc, cid) ==
    uc.role # "super_admin" /\ ~InList(cid, uc.company_ids)

\* lines 134-144: the WHERE clause of the participant query
participants_scope(uc, cid) ==
    LET data_scope == get_user_data_scope(uc) IN
    IF ~Truthy(cid) THEN data_scope
    ELSE IF data_scope # ""
         THEN data_scope \o " AND company_id = '" \o cid[1] \o "'"
         ELSE "WHERE company_id = '" \o cid[1] \o "'"

\* secure_query_participants up to client.query (lines 120-160)
secure_query_participants(s, cid, client_ok) ==
    /\ Enter(s, "secure_query_participants")
    /\ ReadSlot(s, cid)
    /\ IF current_user_context = None
       THEN Return(s, NotAuthenticatedText)
       ELSE LET uc == current_user_context[1] IN
            IF ~check_permission(uc, "view_participants")
            THEN Return(s, AccessDeniedText(uc.role, "view participants"))
            ELSE IF ~client_ok
            THEN Return(s, ErrorText("querying participants", ClientError))
            ELSE IF Truthy(cid) /\ company_denied(uc, cid[1])
            THEN Return(s, CompanyDeniedText(cid[1]))
            ELSE Send(s, Query("participants_participant", participants_scope(uc, cid),
                               ParticipantsLimit), "participants_wait")

\* check_user_permissions (lines 247-267)
check_user_permissions(s) ==
    /\ Enter(s, "check_user_permissions")
    /\ ReadSlot(s, None)
    /\ IF current_user_context = None
       THEN Return(s, NotAuthenticatedText)
       ELSE Return(s, UserContextText(current_user_context[1]))

----------------------------------------------------------------------------
(* The sessions of one process call the tools in any order; a tool call of  *)
(* one session may run between two steps of another session's call.         *)

Step(s, first_rows, rows, cids) ==
    \/ \E email \in CallEmails : authenticate_user(s, email)
    \/ get_user_context(s, first_rows, rows)
    \/ set_user_context_assign(s)
    \/ set_user_context_return(s)
    \/ authenticate_user_return(s)
    \/ \E client_ok \in BOOLEAN : secure_company_count(s, client_ok)
    \/ company_count_result(s)
    \/ \E client_ok \in BOOLEAN : secure_query_companies(s, client_ok)
    \/ companies_result(s)
    \/ \E cid \in cids, client_ok \in BOOLEAN :
           secure_query_participants(s, cid, client_ok)
    \/ participants_result(s)
    \/ check_user_permissions(s)

Next == \E s \in Sessions : Step(s, DirectoryRows, DirectoryRows, SharedCompanyArgs)

Spec == Init /\ [][Next]_vars

\* One session against every row the directory can hold: a login into the
\* empty slot finds any row of AllRows, a login over an identity finds one of
\* DirectoryRows.
InitOne ==
    /\ current_user_context = None
    /\ InitSessions(OneSession)

NextOne == \E s \in OneSession : Step(s, AllRows, DirectoryRows, CompanyArgs)

SpecAny == InitOne /\ [][NextOne]_vars

----------------------------------------------------------------------------
(* Vocabulary of the properties *)

SecureOps == {"secure_company_count", "secure_query_companies",
              "secure_query_participants"}
QueryOps == SecureOps \cup {"check_user_permissions"}

\* the texts that tell the caller a permission is missing
DenialKinds == {"AccessDeniedRole", "AccessDeniedCompany", "ParticipantsCannotView"}

\* session s made the step: it left the given place of its tool call
Moved(s, from, to) == pc[s] = from /\ pc'[s] = to

\* the store client could not be created: the tool failed before any check of
\* the request's arguments and before any query
ClientFailed(s) == pc[s] = "idle" /\ result[s].kind = "Error" /\ sent[s] = None

----------------------------------------------------------------------------
\* C1: a failed authenticate (no matching row, or the lookup raised) leaves the
\* Session Identity Store as it was before the call.
C1_FailedAuthenticateKeepsStore ==
    [][\A s \in DOMAIN pc :
          (Moved(s, "assign", "test") /\ found[s] = None)
              => current_user_context' = current_user_context]_vars

\* C2: a session that authenticated as one user never has a query operation
\* read an identity of another user, which only the other session can have set.
C2_SessionsIsolated ==
    \A s \in DOMAIN pc :
        (op[s] \in QueryOps /\ user_context[s] # None /\ authed[s] # None)
            => authed[s] = Some(user_context[s][1].email)

\* C3: a query operation that finds the store absent returns NotAuthenticated
\* at once and sends no query.
C3_AbsentIsNotAuthenticated ==
    \A s \in DOMAIN pc :
        (op[s] \in QueryOps /\ user_context[s] = None)
            => /\ pc[s] = "idle"
               /\ result[s].kind = "NotAuthenticated"
               /\ sent[s] = None

C3_Witness ==
    \E s \in DOMAIN pc :
        /\ op[s] = "secure_query_participants"
        /\ current_user_context = None
        /\ user_context[s] = None
        /\ result[s].kind = "NotAuthenticated"

\* C4: no Secure Query Operation denies an identity whose isSuperAdmin flag is
\* true, whatever its role.
C4_SuperAdminNeverDenied ==
    \A s \in DOMAIN pc :
        (op[s] \in SecureOps /\ user_context[s] # None
            /\ user_context[s][1].is_super_admin)
            => result[s].kind \notin DenialKinds

\* the identities at hand: the one in the slot and the ones the tools read
Seen ==
    { current_user_context[i] : i \in DOMAIN current_user_context }
        \cup UNION { { user_context[s][i] : i \in DOMAIN user_context[s] } : s \in DOMAIN pc }

Members(list) == { list[i] : i \in DOMAIN list }

\* 'id1', 'id2', ..., built from the last id backwards
RECURSIVE QuotedList(_)
QuotedList(ids) ==
    IF ids = <<>> THEN ""
    ELSE LET n == Len(ids) IN
         QuotedList(SubSeq(ids, 1, n - 1)) \o (IF n > 1 THEN ", " ELSE "")
             \o "'" \o ids[n] \o "'"

\* the WHERE clause of the query the session's count or list tool sent
SentWhere(s) == sent[s][1].where

C6_UnknownRoleMatchesNothing ==
    \A s \in DOMAIN pc :
        (/\ op[s] = "secure_company_count"
         /\ sent[s] # None
         /\ user_context[s][1].role \notin KnownRoles)
            => SentWhere(s) = "WHERE 1=0"

\* C6 amended: every identity whose role is not one of the five and whose
\* isSuperAdmin flag is false gets the filter that matches nothing, and that
\* is the WHERE clause of the queries sent for it.
C6_UnknownRoleWithoutFlagMatchesNothing ==
    /\ \A uc \in Seen :
          (uc.role \notin KnownRoles /\ ~uc.is_super_admin)
              => get_user_data_scope(uc) = "WHERE 1=0"
    /\ \A s \in DOMAIN pc :
          (/\ op[s] \in {"secure_company_count", "secure_query_companies"}
           /\ sent[s] # None
           /\ user_context[s][1].role \notin KnownRoles
           /\ ~user_context[s][1].is_super_admin)
              => SentWhere(s) = "WHERE 1=0"

C6_Witness ==
    \E s \in DOMAIN pc :
        /\ op[s] = "secure_company_count"
        /\ sent[s] # None
        /\ user_context[s][1].role = "auditor"
        /\ ~user_context[s][1].is_super_admin
        /\ user_context[s][1].company_ids # <<>>
        /\ SentWhere(s) = "WHERE 1=0"

\* C7: check_permission is true exactly when the flag is set or the name is in
\* the permission list; the company tools deny exactly the identities it
\* rejects, so a role of super_admin without the flag grants nothing.
Capabilities == {"view_companies", "view_participants", "export_data"}

C7_CapabilityIffFlagOrListed ==
    /\ \A uc \in Seen : \A name \in Capabilities :
          check_permission(uc, name)
              <=> (uc.is_super_admin \/ name \in Members(uc.permissions))
    /\ \A s \in DOMAIN pc :
          (op[s] = "secure_company_count" /\ user_context[s] # None)
              => ((result[s].kind = "AccessDeniedRole" /\ pc[s] = "idle")
                    <=> ~(\/ user_context[s][1].is_super_admin
                          \/ "view_companies" \in Members(user_context[s][1].permissions)))

C7_Witness ==
    \E s \in DOMAIN pc :
        /\ op[s] = "secure_company_count"
        /\ user_context[s] # None
        /\ user_context[s][1].role = "super_admin"
        /\ ~user_context[s][1].is_super_admin
        /\ user_context[s][1].permissions = <<"view_participants">>
        /\ result[s].kind = "AccessDeniedRole"

\* C8: an identity with the isSuperAdmin flag gets no filter, whatever its
\* role, companyIds and planIds, and its count query carries no WHERE clause.
C8_FlagIsUnrestricted ==
    /\ \A uc \in Seen : uc.is_super_admin => get_user_data_scope(uc) = ""
    /\ \A s \in DOMAIN pc :
          (/\ op[s] = "secure_company_count"
           /\ sent[s] # None
           /\ user_context[s][1].is_super_admin)
              => SentWhere(s) = ""

C8_Witness ==
    \E s \in DOMAIN pc :
        /\ op[s] = "secure_company_count"
        /\ sent[s] # None
        /\ user_context[s][1].is_super_admin
        /\ user_context[s][1].role = "participant"
        /\ user_context[s][1].company_ids # <<>>
        /\ user_context[s][1].plan_ids # <<>>
        /\ SentWhere(s) = ""

\* C9: an identity whose role is super_admin gets no filter, also when its
\* isSuperAdmin flag is false.
C9_SuperAdminRoleIsUnrestricted ==
    \A s \in DOMAIN pc :
        (/\ op[s] = "secure_company_count"
         /\ sent[s] # None
         /\ user_context[s][1].role = "super_admin")
            => SentWhere(s) = ""

\* C10: without the flag, participant gives participant_email = '<email>',
\* company_admin and advisor give company_id IN exactly the companyIds,
\* plan_admin gives plan_id IN exactly the planIds, and an empty id list gives
\* the filter that matches nothing.
TableScope(uc) ==
    IF uc.role = "participant"
        THEN "WHERE participant_email = '" \o uc.email \o "'"
    ELSE IF uc.role \in {"company_admin", "advisor"}
        THEN IF uc.company_ids = <<>> THEN "WHERE 1=0"
             ELSE "WHERE company_id IN (" \o QuotedList(uc.company_ids) \o ")"
    ELSE IF uc.plan_ids = <<>> THEN "WHERE 1=0"
         ELSE "WHERE plan_id IN (" \o QuotedList(uc.plan_ids) \o ")"

ScopedRoles == {"participant", "company_admin", "advisor", "plan_admin"}

C10_ScopeFollowsTable ==
    /\ \A uc \in Seen :
          (~uc.is_super_admin /\ uc.role \in ScopedRoles)
              => get_user_data_scope(uc) = TableScope(uc)
    /\ \A s \in DOMAIN pc :
          (/\ op[s] = "secure_company_count"
           /\ sent[s] # None
           /\ ~user_context[s][1].is_super_admin
           /\ user_context[s][1].role \in ScopedRoles)
              => SentWhere(s) = TableScope(user_context[s][1])

C10_Witness ==
    \E s \in DOMAIN pc :
        /\ op[s] = "secure_company_count"
        /\ sent[s] # None
        /\ ~user_context[s][1].is_super_admin
        /\ user_context[s][1].role = "advisor"
        /\ user_context[s][1].company_ids = <<"C1", "C2">>
        /\ SentWhere(s) = "WHERE company_id IN ('C1', 'C2')"

----------------------------------------------------------------------------
C12_ParticipantGetsNoCompanyCount ==
    \A s \in DOMAIN pc :
        (/\ op[s] = "secure_company_count"
         /\ user_context[s] # None
         /\ user_context[s][1].role = "participant"
         /\ "view_companies" \in Members(user_context[s][1].permissions))
        => /\ sent[s] = None
           /\ ClientFailed(s) \/ result[s].kind \in DenialKinds

\* C13: a successful authenticate stores the row it looked up, whole, whatever
\* the slot held before; a query tool works on the identity the slot holds at
\* its call, and the WHERE clause it sends is computed from that identity.
StoresLookedUpRow(s) ==
    (Moved(s, "assign", "test") /\ found[s] # None)
        => current_user_context' = found[s]

C13_ReauthenticateReplaces ==
    /\ [][\A s \in DOMAIN pc : StoresLookedUpRow(s)]_vars
    /\ [](\A s \in DOMAIN pc :
            /\ (op[s] = "authenticate_user" /\ pc[s] = "idle"
                    /\ result[s].kind = "Authenticated")
                  => /\ current_user_context = found[s]
                     /\ result[s].user = found[s]
            /\ (op[s] \in QueryOps /\ pc[s] = "idle" /\ user_context[s] # None)
                  => user_context[s] = current_user_context
            /\ (op[s] \in SecureOps /\ sent[s] # None)
                  => /\ user_context[s] = current_user_context
                     /\ SentWhere(s) = participants_scope(current_user_context[1],
                                                          company_id[s]))

C13_Witness ==
    \E s \in DOMAIN pc :
        /\ op[s] = "secure_query_participants"
        /\ authed[s] = Some("b@x.com")
        /\ current_user_context # None
        /\ current_user_context[1].email = "b@x.com"
        /\ current_user_context[1].role = "participant"
        /\ current_user_context[1].company_ids = <<>>
        /\ sent[s] # None
        /\ SentWhere(s) = "WHERE participant_email = 'b@x.com'"

\* C14: an authenticated identity without the tool's required capability gets
\* the denial naming its role and nothing is sent; an absent identity gets
\* NotAuthenticated, never the denial.
RequiredCapability(name) ==
    IF name = "secure_query_participants" THEN "view_participants"
    ELSE "view_companies"

C14_MissingCapabilityDenied ==
    \A s \in DOMAIN pc :
        op[s] \in SecureOps
        => /\ (/\ user_context[s] # None
               /\ ~user_context[s][1].is_super_admin
               /\ RequiredCapability(op[s])
                     \notin Members(user_context[s][1].permissions))
              => /\ pc[s] = "idle"
                 /\ result[s].kind = "AccessDeniedRole"
                 /\ result[s].role = user_context[s][1].role
                 /\ result[s].arg = (IF op[s] = "secure_query_participants"
                                     THEN "view participants" ELSE "view companies")
                 /\ sent[s] = None
           /\ user_context[s] = None => result[s].kind = "NotAuthenticated"

C14_Witness ==
    \E s \in DOMAIN pc :
        /\ op[s] = "secure_query_participants"
        /\ user_context[s] # None
        /\ user_context[s][1].role = "company_admin"
        /\ user_context[s][1].permissions = <<"view_companies">>
        /\ result[s].kind = "AccessDeniedRole"
        /\ result[s].role = "company_admin"
        /\ sent[s] = None

\* C15: authenticate reports UserNotFound exactly when the lookup returns no
\* row and BackendError exactly when the lookup raises.
C15_FailureKindsTellApart ==
    \A s \in DOMAIN pc :
        (op[s] = "authenticate_user" /\ pc[s] = "idle")
        => /\ (result[s].kind = "AuthFailed") <=> (lookup[s] = "empty")
           /\ (result[s].kind = "BackendError") <=> (lookup[s] = "error")

\* C16: the text of every query sent is free of the identity's email, company
\* ids and plan ids and of the company id argument (it is the same text for
\* other values), and the values the clause filters on are bound parameters.
Renamed(uc) ==
    [uc EXCEPT !.email = "other@x.com",
               !.company_ids = [i \in DOMAIN @ |-> "X" \o @[i]],
               !.plan_ids = [i \in DOMAIN @ |-> "X" \o @[i]]]

RenamedArg(cid) == IF Truthy(cid) THEN Some("X" \o cid[1]) ELSE cid

C16_ValuesOnlyAsParameters ==
    \A s \in DOMAIN pc :
        (op[s] \in SecureOps /\ sent[s] # None)
        => /\ SentWhere(s) = participants_scope(Renamed(user_context[s][1]),
                                                RenamedArg(company_id[s]))
           /\ Truthy(company_id[s])
                 => company_id[s][1] \in Members(sent[s][1].params)

WaitPlaces == {"count_wait", "companies_wait", "participants_wait"}

C18_BackendFailureIsAnError ==
    /\ [][\A s \in DOMAIN pc :
            (pc[s] \in WaitPlaces /\ pc'[s] = "idle")
                => current_user_context' = current_user_context]_vars
    /\ [](\A s \in DOMAIN pc :
            (op[s] \in SecureOps /\ pc[s] = "idle" /\ remote[s].outcome = "error")
                => /\ result[s].kind = "Error"
                   /\ result[s].cause = remote[s].cause
                   /\ result[s].cause \in QueryErrors)

C18_Witness ==
    \E s \in DOMAIN pc :
        /\ op[s] = "secure_query_companies"
        /\ pc[s] = "idle"
        /\ sent[s] # None
        /\ remote[s] = Answer("error", 0, "Timeout")
        /\ result[s].kind = "Error"
        /\ result[s].cause = "Timeout"
        /\ current_user_context = user_context[s]

\* C19: a list query that succeeds with no row returns the no-rows text, which
\* is none of the error texts.
ErrorKinds == {"NotAuthenticated", "Error", "BackendError", "AuthFailed", "Raised"}
                  \cup DenialKinds

C19_ZeroRowsIsNotAnError ==
    \A s \in DOMAIN pc :
        (/\ op[s] \in {"secure_query_companies", "secure_query_participants"}
         /\ pc[s] = "idle"
         /\ remote[s].outcome \in {"dataframe", "fallback"}
         /\ remote[s].n = 0)
        => /\ result[s].kind = "NoRows"
           /\ result[s].kind \notin ErrorKinds
           /\ result[s].arg = (IF op[s] = "secure_query_companies"
                               THEN "companies" ELSE "participants")

C19_Witness ==
    \E s \in DOMAIN pc :
        /\ op[s] = "secure_query_participants"
        /\ pc[s] = "idle"
        /\ remote[s] = Answer("fallback", 0, "")
        /\ result[s].kind = "NoRows"

\* C20: whatever the interleaving, the slot, and every identity a tool read
\* from it or reported, is absent or one whole row of the directory.
WholeRow(x) == x = None \/ x[1] \in DirectoryRows \cup AllRows

C20_SlotHoldsWholeRows ==
    /\ WholeRow(current_user_context)
    /\ \A s \in DOMAIN pc :
          /\ WholeRow(user_context[s])
          /\ WholeRow(result[s].user)

C20_Witness ==
    \E s \in DOMAIN pc : \E t \in DOMAIN pc :
        /\ s # t
        /\ pc[s] = "test"
        /\ found[s] # None
        /\ authed[t] # None
        /\ authed[t] # authed[s]
        /\ op[t] = "check_user_permissions"
        /\ user_context[t] = found[s]
        /\ result[t].user = found[s]

\* C21: the slot changes only in the assignment of authenticate_user; every
\* step of secure_company_count, secure_query_companies,
\* secure_query_participants and check_user_permissions, on every path,
\* leaves the slot and the fields of the stored identity as they were.
Acted(s) ==
    <<pc[s], op[s], user_context[s], company_id[s], sent[s], result[s], remote[s]>>'
        # <<pc[s], op[s], user_context[s], company_id[s], sent[s], result[s], remote[s]>>

C21_OnlyAuthenticateWritesStore ==
    [][/\ \A s \in DOMAIN pc :
            (Acted(s) /\ op'[s] \in QueryOps)
                => current_user_context' = current_user_context
       /\ (current_user_context' # current_user_context)
            => \E s \in DOMAIN pc :
                  op[s] = "authenticate_user" /\ Moved(s, "assign", "test")]_vars

C21_Witness ==
    \E s \in DOMAIN pc :
        /\ op[s] = "secure_query_participants"
        /\ pc[s] = "idle"
        /\ Truthy(company_id[s])
        /\ sent[s] # None
        /\ SentWhere(s) = "WHERE company_id IN (" \o QuotedList(Companies(MaxCompanies))
                             \o ") AND company_id = '" \o company_id[s][1] \o "'"
        /\ result[s].kind = "Listing"
        /\ current_user_context = user_context[s]
        /\ current_user_context[1].company_ids = Companies(MaxCompanies)

\* C22: from every state with an identity in the slot the store offers a step,
\* other than a step of authenticate_user, that returns the slot to absent; and
\* with the slot absent every Secure Query Operation yields the
\* not-authenticated text.
ClearStep(s) ==
    /\ \/ Step(s, DirectoryRows, DirectoryRows, SharedCompanyArgs)
       \/ Step(s, AllRows, DirectoryRows, CompanyArgs)
    /\ op'[s] # "authenticate_user"
    /\ current_user_context' = None

C22_ClearOffered ==
    \A s \in DOMAIN pc :
        /\ (pc[s] = "idle" /\ current_user_context # None) => ENABLED ClearStep(s)
        /\ (pc[s] = "idle" /\ op[s] \in SecureOps /\ user_context[s] = None)
              => result[s].kind = "NotAuthenticated"

\* C23: every tool call that has ended has returned a text; in particular
\* secure_company_count returns a count or an error text whatever the count
\* query answered, a result without a row included.
TextKinds ==
    {"NotAuthenticated", "Error", "NoRows", "Listing", "ListingFallback",
     "TotalCount", "AccessCount", "Authenticated", "AuthFailed", "UserContext"}
        \cup DenialKinds

C23_EveryCallReturnsText ==
    \A s \in DOMAIN pc :
        /\ (pc[s] = "idle" /\ op[s] # "") => result[s].kind \in TextKinds
        /\ (pc[s] = "idle" /\ op[s] = "secure_company_count" /\ sent[s] # None)
              => result[s].kind \in {"TotalCount", "AccessCount", "Error"}

\* C24: an authenticate_user call that reports success describes in its result
\* the identity its own lookup resolved for its email, whatever other
\* authenticate_user calls ran in between; a call whose set_user_context
\* returned True ends with that text.
C24_SuccessDescribesOwnIdentity ==
    \A s \in DOMAIN pc :
        (op[s] = "authenticate_user" /\ pc[s] = "idle" /\ success[s])
        => /\ result[s].kind = "Authenticated"
           /\ found[s] # None
           /\ result[s].user = found[s]
           /\ result[s].user[1].email = user_email[s]

====
